---- MODULE Spec2Model ----
(***************************************************************************)
(* The sort-interfaces rule of eslint-plugin-perfectionist                *)
(* (src/rules/sort-interfaces.ts): option defaulting, key extraction for  *)
(* the members of an interface body, the adjacent-pair scan that reports  *)
(* ordering violations, and the fix attached to every report.             *)
(*                                                                         *)
(* Source text is a sequence of one-character strings; offsets are        *)
(* 0-based and ranges are half-open, as in the syntax tree.               *)
(***************************************************************************)
EXTENDS Integers, Sequences, FiniteSets, TLC

VARIABLES
  userOptions,     \* the options array as written in the configuration
  contextOptions,  \* context.options, as the host hands it to the rule
  text,            \* source.text
  body,            \* node.body: the members of the TSInterfaceBody
  pc,              \* "validate" | "lint" | "reported"
  options,         \* the handler's effective options (line 66)
  nodes,           \* the handler's SortingNode list (line 74)
  diagnostics,     \* what context.report received in the last pass
  passes           \* number of fixes the host has applied

vars == <<userOptions, contextOptions, text, body, pc, options, nodes,
          diagnostics, passes>>

\* ------------------------------------------------------------------ bounds

\* Longest interface body drawn as input.
MaxBody == 3

\* Number of times the host applies a fix and lints again.
MaxPasses == 2

\* ------------------------------------------------------------- characters

\* Code point of a character of the modelled alphabet.
Code(c) ==
  CASE c = " " -> 32 [] c = "'" -> 39 [] c = "(" -> 40 [] c = ")" -> 41
    [] c = "." -> 46 [] c = "0" -> 48 [] c = "1" -> 49 [] c = "2" -> 50
    [] c = "3" -> 51 [] c = "4" -> 52 [] c = "5" -> 53 [] c = "6" -> 54
    [] c = "7" -> 55 [] c = "8" -> 56 [] c = "9" -> 57
    [] c = ":" -> 58 [] c = ";" -> 59 [] c = "?" -> 63 [] c = "[" -> 91
    [] c = "]" -> 93 [] c = "a" -> 97 [] c = "b" -> 98 [] c = "c" -> 99
    [] c = "k" -> 107 [] c = "s" -> 115 [] c = "{" -> 123 [] c = "}" -> 125

IsDigit(c) == Code(c) >= Code("0") /\ Code(c) <= Code("0") + 9

\* String.prototype.slice(start, end) for 0 <= start, end <= length.
slice(str, start, end) ==
  IF end <= start THEN <<>> ELSE SubSeq(str, start + 1, end)

\* ------------------------------------------------------------ syntax tree

\* An absent optional sub-node (typeAnnotation, returnType).
None == <<>>

NoValue == [kind |-> "none", str |-> <<>>, num |-> 0]
StringValue(s) == [kind |-> "string", str |-> s, num |-> 0]
NumberValue(n) == [kind |-> "number", str |-> <<>>, num |-> n]

NoKey == [type |-> "None", name |-> <<>>, value |-> NoValue]
Identifier(n) == [type |-> "Identifier", name |-> n, value |-> NoValue]
Literal(v) == [type |-> "Literal", name |-> <<>>, value |-> v]
MemberExpression == [type |-> "MemberExpression", name |-> <<>>, value |-> NoValue]

\* A member as written: its source text, what the parser makes of it, and
\* the offset of its type annotation or return type inside the text (-1 when
\* the member has none).
Member(type, key, optional, src, typeAnnotation, returnType) ==
  [type |-> type, key |-> key, optional |-> optional, src |-> src,
   typeAnnotation |-> typeAnnotation, returnType |-> returnType]

\* The members the inputs are drawn from.  The range of a member includes a
\* trailing ";" when one is written.
Pool ==
  << Member("TSPropertySignature", Identifier(<<"a">>), FALSE,
            <<"a", ":", "s", ";">>, 1, -1),
     Member("TSPropertySignature", Identifier(<<"b">>), FALSE,
            <<"b">>, -1, -1),
     Member("TSPropertySignature", Literal(StringValue(<<"a">>)), FALSE,
            <<"'", "a", "'", ";">>, -1, -1),
     Member("TSPropertySignature", Literal(StringValue(<<>>)), FALSE,
            <<"'", "'", ":", "s">>, 2, -1),
     Member("TSPropertySignature", Literal(NumberValue(10)), FALSE,
            <<"1", "0", ":", "s">>, 2, -1),
     Member("TSPropertySignature", Literal(NumberValue(2)), FALSE,
            <<"2">>, -1, -1),
     Member("TSPropertySignature", MemberExpression, TRUE,
            <<"[", "a", ".", "b", "]", "?">>, -1, -1),
     Member("TSPropertySignature", MemberExpression, TRUE,
            <<"[", "a", ".", "c", "]", "?", ";">>, -1, -1),
     Member("TSPropertySignature", MemberExpression, TRUE,
            <<"[", "a", ".", "b", "]", "?", ":", "s">>, 6, -1),
     Member("TSIndexSignature", NoKey, FALSE,
            <<"[", "k", ":", "s", "]", ":", "s">>, 5, -1),
     Member("TSMethodSignature", Identifier(<<"c">>), FALSE,
            <<"c", "(", ")", ":", "s">>, -1, 3),
     Member("TSCallSignatureDeclaration", NoKey, FALSE,
            <<"(", ")">>, -1, -1) >>

\* Text that precedes the first member ("interface I {" shortened).
Header == <<"{">>
Separator == <<" ">>
Footer == <<"}">>

RECURSIVE Render(_)
\* The source text of an interface body with the given members.
Render(members) ==
  IF members = <<>> THEN <<>>
  ELSE IF Len(members) = 1 THEN members[1].src
  ELSE members[1].src \o Separator \o Render(Tail(members))

RECURSIVE StartOf(_, _)
\* Offset of the i-th member in the rendered source.
StartOf(members, i) ==
  IF i = 1 THEN Len(Header)
  ELSE StartOf(members, i - 1) + Len(members[i - 1].src) + Len(Separator)

\* The syntax-tree element of the i-th member.
Element(members, i) ==
  LET m == members[i]
      start == StartOf(members, i)
  IN [type |-> m.type, key |-> m.key, optional |-> m.optional,
      range |-> <<start, start + Len(m.src)>>,
      typeAnnotation |->
        IF m.typeAnnotation < 0 THEN None
        ELSE <<start + m.typeAnnotation, start + Len(m.src)>>,
      returnType |->
        IF m.returnType < 0 THEN None
        ELSE <<start + m.returnType, start + Len(m.src)>>]

SourceOf(members) == Header \o Render(members) \o Footer
BodyOf(members) == [i \in 1..Len(members) |-> Element(members, i)]

\* The member an element was parsed from.
MemberOf(element, source) ==
  Member(element.type, element.key, element.optional,
         slice(source, element.range[1], element.range[2]),
         IF element.typeAnnotation = None THEN -1
         ELSE element.typeAnnotation[1] - element.range[1],
         IF element.returnType = None THEN -1
         ELSE element.returnType[1] - element.range[1])

\* ---------------------------------------------------------- key extraction

DigitChar(d) ==
  CASE d = 0 -> "0" [] d = 1 -> "1" [] d = 2 -> "2" [] d = 3 -> "3"
    [] d = 4 -> "4" [] d = 5 -> "5" [] d = 6 -> "6" [] d = 7 -> "7"
    [] d = 8 -> "8" [] d = 9 -> "9"

RECURSIVE Decimal(_)
\* Number-to-string conversion of a natural number.
Decimal(n) ==
  IF n < 10 THEN <<DigitChar(n)>>
  ELSE Decimal(n \div 10) \o <<DigitChar(n % 10)>>

\* The template literal `${element.key.value}` (line 81).
stringify(value) ==
  IF value.kind = "number" THEN Decimal(value.num) ELSE value.str

\* name, forgetting the optional marker of a property without annotation.
name_keepsOptionalMarker(element, source) ==
  IF element.type = "TSPropertySignature" THEN
    IF element.key.type = "Identifier" THEN element.key.name
    ELSE IF element.key.type = "Literal" THEN stringify(element.key.value)
    ELSE slice(source, element.range[1],
               IF element.typeAnnotation # None THEN element.typeAnnotation[1]
               ELSE element.range[2])
  ELSE IF element.type = "TSIndexSignature" THEN
    slice(source, element.range[1],
          IF element.typeAnnotation # None THEN element.typeAnnotation[1]
          ELSE element.range[2])
  ELSE
    slice(source, element.range[1],
          IF element.returnType # None THEN element.returnType[1]
          ELSE element.range[2])

\* The name of one element (lines 75-104).
name(element, source) ==
  IF element.type = "TSPropertySignature" THEN
    IF element.key.type = "Identifier" THEN element.key.name
    ELSE IF element.key.type = "Literal" THEN stringify(element.key.value)
    ELSE
      LET end ==
            IF element.typeAnnotation # None /\ element.typeAnnotation[1] # 0
            THEN element.typeAnnotation[1]
            ELSE element.range[2] - (IF element.optional THEN Len(<<"?">>) ELSE 0)
      IN slice(source, element.range[1], end)
  ELSE IF element.type = "TSIndexSignature" THEN
    slice(source, element.range[1],
          IF element.typeAnnotation # None THEN element.typeAnnotation[1]
          ELSE element.range[2])
  ELSE
    slice(source, element.range[1],
          IF element.returnType # None THEN element.returnType[1]
          ELSE element.range[2])

\* rangeToDiff(range): the width of a range.
rangeToDiff(range) == range[2] - range[1]

\* node.body.map(...) (lines 74-111): one SortingNode per element.
SortingNodes(elements, source) ==
  [i \in 1..Len(elements) |->
     [size |-> rangeToDiff(elements[i].range),
      node |-> elements[i],
      name |-> name(elements[i], source)]]

\* ---------------------------------------------------------------- options

SortType == {"alphabetical", "natural", "line-length"}
SortOrder == {"asc", "desc"}

\* A property the options object does not have.
Absent == "absent"

\* The options objects the schema accepts (lines 33-52).
OptionsObjects == [type : SortType \cup {Absent}, order : SortOrder \cup {Absent}]

\* The schema's `default` keywords (lines 43 and 47), which the host's
\* validator writes into an options object for the properties it lacks.
schemaDefaults(object) ==
  [type |-> IF object.type = Absent THEN "natural" ELSE object.type,
   order |-> IF object.order = Absent THEN "asc" ELSE object.order]

\* complete(options, defaults): the defaults overridden by the properties
\* the options object has; options is <<>> when there is no options object.
complete(given, defaults) ==
  IF given = <<>> THEN defaults
  ELSE [type |-> IF given[1].type = Absent THEN defaults.type ELSE given[1].type,
        order |-> IF given[1].order = Absent THEN defaults.order ELSE given[1].order]

\* The handler's options (lines 66-69).
effectiveOptions(ctxOptions) ==
  complete(IF ctxOptions = <<>> THEN <<>> ELSE <<ctxOptions[1]>>,
           [type |-> "alphabetical", order |-> "asc"])

\* ------------------------------------------------------------- comparator

Sign(n) == IF n < 0 THEN -1 ELSE IF n > 0 THEN 1 ELSE 0

RECURSIVE alphabetical(_, _)
\* Code-point-wise comparison of two strings: -1, 0 or 1.
alphabetical(x, y) ==
  IF x = <<>> /\ y = <<>> THEN 0
  ELSE IF x = <<>> THEN -1
  ELSE IF y = <<>> THEN 1
  ELSE IF Code(x[1]) # Code(y[1]) THEN Sign(Code(x[1]) - Code(y[1]))
  ELSE alphabetical(Tail(x), Tail(y))

RECURSIVE DigitRun(_)
\* Length of the maximal run of decimal digits a string starts with.
DigitRun(x) ==
  IF x = <<>> \/ ~IsDigit(x[1]) THEN 0 ELSE 1 + DigitRun(Tail(x))

RECURSIVE NumericValue(_)
NumericValue(digits) ==
  IF digits = <<>> THEN 0
  ELSE 10 * NumericValue(SubSeq(digits, 1, Len(digits) - 1))
       + (Code(digits[Len(digits)]) - Code("0"))

RECURSIVE natural(_, _)
\* As alphabetical, except that maximal runs of digits compare by value.
natural(x, y) ==
  IF x = <<>> /\ y = <<>> THEN 0
  ELSE IF x = <<>> THEN -1
  ELSE IF y = <<>> THEN 1
  ELSE IF IsDigit(x[1]) /\ IsDigit(y[1]) THEN
    LET rx == DigitRun(x)
        ry == DigitRun(y)
        vx == NumericValue(SubSeq(x, 1, rx))
        vy == NumericValue(SubSeq(y, 1, ry))
    IN IF vx # vy THEN Sign(vx - vy)
       ELSE natural(SubSeq(x, rx + 1, Len(x)), SubSeq(y, ry + 1, Len(y)))
  ELSE IF Code(x[1]) # Code(y[1]) THEN Sign(Code(x[1]) - Code(y[1]))
  ELSE natural(Tail(x), Tail(y))

\* Sizes first; equal sizes fall back to the alphabetical comparison.
lineLength(a, b) ==
  IF a.size # b.size THEN Sign(a.size - b.size)
  ELSE alphabetical(a.name, b.name)

\* The sign of a against b under a configuration.
ordering(a, b, opts) ==
  LET sign == IF opts.type = "alphabetical" THEN alphabetical(a.name, b.name)
              ELSE IF opts.type = "natural" THEN natural(a.name, b.name)
              ELSE lineLength(a, b)
  IN IF opts.order = "asc" THEN sign ELSE -sign

\* compare(a, b, options): b belongs strictly before a.
compare(a, b, opts) == ordering(a, b, opts) > 0

\* -------------------------------------------------------------------- fix

RECURSIVE InsertStable(_, _, _, _)
\* Insert index i into the sorted index list `order`, behind every index
\* that does not belong strictly after it.
InsertStable(order, i, list, opts) ==
  IF order = <<>> THEN <<i>>
  ELSE IF compare(list[order[1]], list[i], opts) THEN <<i>> \o order
  ELSE <<order[1]>> \o InsertStable(Tail(order), i, list, opts)

RECURSIVE StableOrder(_, _, _)
\* Stable sort of the first n nodes, as a list of their indices.
StableOrder(list, n, opts) ==
  IF n = 0 THEN <<>>
  ELSE InsertStable(StableOrder(list, n - 1, opts), n, list, opts)

RECURSIVE Replacement(_, _, _, _)
\* The target elements' text from position k on, each followed by the
\* separator that followed the k-th original element.
Replacement(order, k, list, source) ==
  LET target == list[order[k]].node
      here == slice(source, target.range[1], target.range[2])
  IN IF k = Len(order) THEN here
     ELSE here
          \o slice(source, list[k].node.range[2], list[k + 1].node.range[1])
          \o Replacement(order, k + 1, list, source)

RECURSIVE InsertUnstable(_, _, _, _)
InsertUnstable(order, i, list, opts) ==
  IF order = <<>> THEN <<i>>
  ELSE IF ordering(list[order[1]], list[i], opts) >= 0 THEN <<i>> \o order
  ELSE <<order[1]>> \o InsertUnstable(Tail(order), i, list, opts)

RECURSIVE UnstableOrder(_, _, _)
UnstableOrder(list, n, opts) ==
  IF n = 0 THEN <<>>
  ELSE InsertUnstable(UnstableOrder(list, n - 1, opts), n, list, opts)

\* sortNodes with a sort that moves a node in front of its equals.
sortNodes_unstable(opts, source, list) ==
  LET order == UnstableOrder(list, Len(list), opts)
  IN [order |-> order,
      range |-> <<list[1].node.range[1], list[Len(list)].node.range[2]>>,
      text |-> Replacement(order, 1, list, source)]

\* sortNodes(fixer, {options, source, nodes}): one replacement of the whole
\* body by its members in target order.
sortNodes(opts, source, list) ==
  LET order == StableOrder(list, Len(list), opts)
  IN [order |-> order,
      range |-> <<list[1].node.range[1], list[Len(list)].node.range[2]>>,
      text |-> Replacement(order, 1, list, source)]

\* ------------------------------------------------------------------- scan

\* pairwise(nodes, callback): the pairs the callback is called with, in
\* call order.
pairwise(list) ==
  [i \in 1..(IF Len(list) > 1 THEN Len(list) - 1 ELSE 0) |->
     <<list[i], list[i + 1]>>]

\* report, with the data of the message the wrong way round.
report_swappedData(first, second, opts, source, list) ==
  [messageId |-> "unexpectedInterfacePropertiesOrder",
   data |-> [first |-> second.name, second |-> first.name],
   node |-> second.node,
   fix |-> sortNodes(opts, source, list)]

\* report, with a fix that sorts under the default options.
report_defaultOptionsFix(first, second, opts, source, list) ==
  [messageId |-> "unexpectedInterfacePropertiesOrder",
   data |-> [first |-> first.name, second |-> second.name],
   node |-> second.node,
   fix |-> sortNodes([type |-> "alphabetical", order |-> "asc"], source, list)]

\* report, with a fix that sorts the reported pair alone.
report_pairFix(first, second, opts, source, list) ==
  [messageId |-> "unexpectedInterfacePropertiesOrder",
   data |-> [first |-> first.name, second |-> second.name],
   node |-> second.node,
   fix |-> sortNodes(opts, source, <<first, second>>)]

\* The descriptor handed to context.report (lines 115-128).
report(first, second, opts, source, list) ==
  [messageId |-> "unexpectedInterfacePropertiesOrder",
   data |-> [first |-> first.name, second |-> second.name],
   node |-> second.node,
   fix |-> sortNodes(opts, source, list)]

\* scan, calling compare with its arguments the wrong way round.
scan_swappedCompare(list, opts, source) ==
  LET disordered == SelectSeq(pairwise(list),
                              LAMBDA pair: compare(pair[2], pair[1], opts))
  IN [k \in 1..Len(disordered) |->
        report(disordered[k][1], disordered[k][2], opts, source, list)]

\* scan, reporting every pair that is not strictly in order.
scan_nonStrict(list, opts, source) ==
  LET disordered == SelectSeq(pairwise(list),
                              LAMBDA pair: ~compare(pair[2], pair[1], opts))
  IN [k \in 1..Len(disordered) |->
        report(disordered[k][1], disordered[k][2], opts, source, list)]

\* The pairwise callback (lines 113-130): the reports of one body.
scan(list, opts, source) ==
  LET disordered == SelectSeq(pairwise(list),
                              LAMBDA pair: compare(pair[1], pair[2], opts))
  IN [k \in 1..Len(disordered) |->
        report(disordered[k][1], disordered[k][2], opts, source, list)]

\* lint, skipping bodies of two members.
lint_skipsPairs(elements, source, opts) ==
  IF Len(elements) > 2
  THEN [nodes |-> SortingNodes(elements, source),
        reports |-> scan(SortingNodes(elements, source), opts, source)]
  ELSE [nodes |-> <<>>, reports |-> <<>>]

\* The body of the TSInterfaceBody handler below line 69 (lines 71-131).
lint(elements, source, opts) ==
  IF Len(elements) > 1
  THEN [nodes |-> SortingNodes(elements, source),
        reports |-> scan(SortingNodes(elements, source), opts, source)]
  ELSE [nodes |-> <<>>, reports |-> <<>>]

\* ------------------------------------------------------------ state machine

RECURSIVE Bodies(_)
\* Member lists of length n without repetition (as index lists into Pool).
Bodies(n) ==
  IF n = 0 THEN {<<>>}
  ELSE UNION {{Append(b, i) : i \in (1..Len(Pool)) \ {b[k] : k \in 1..Len(b)}} :
              b \in Bodies(n - 1)}

InputBodies == UNION {Bodies(n) : n \in 0..MaxBody}

Init ==
  /\ userOptions \in {<<>>} \cup {<<o>> : o \in OptionsObjects}
  /\ contextOptions = userOptions
  /\ \E b \in InputBodies :
       LET members == [i \in 1..Len(b) |-> Pool[b[i]]]
       IN /\ text = SourceOf(members)
          /\ body = BodyOf(members)
  /\ pc = "validate"
  /\ options = effectiveOptions(<<>>)
  /\ nodes = <<>>
  /\ diagnostics = <<>>
  /\ passes = 0

\* The host validates the configured options against the schema (lines
\* 33-52) before the rule runs, filling in the schema's defaults.
ValidateOptions ==
  /\ pc = "validate"
  /\ contextOptions' = [i \in 1..Len(userOptions) |-> schemaDefaults(userOptions[i])]
  /\ pc' = "lint"
  /\ UNCHANGED <<userOptions, text, body, options, nodes, diagnostics, passes>>

\* The handler for a TSInterfaceBody node (lines 65-132).
TSInterfaceBody ==
  /\ pc = "lint"
  /\ LET opts == effectiveOptions(contextOptions)
         result == lint(body, text, opts)
     IN /\ options' = opts
        /\ nodes' = result.nodes
        /\ diagnostics' = result.reports
  /\ pc' = "reported"
  /\ UNCHANGED <<userOptions, contextOptions, text, body, passes>>

\* The host applies the fix of the first report (the later ones overlap it)
\* and lints the new text.
ApplyFix ==
  /\ pc = "reported"
  /\ diagnostics # <<>>
  /\ passes < MaxPasses
  /\ LET fix == diagnostics[1].fix
         members == [k \in 1..Len(body) |-> MemberOf(body[fix.order[k]], text)]
     IN /\ text' = slice(text, 0, fix.range[1]) \o fix.text
                   \o slice(text, fix.range[2], Len(text))
        /\ body' = BodyOf(members)
  /\ passes' = passes + 1
  /\ pc' = "lint"
  /\ nodes' = <<>>
  /\ diagnostics' = <<>>
  /\ UNCHANGED <<userOptions, contextOptions, options>>

Next == ValidateOptions \/ TSInterfaceBody \/ ApplyFix

Spec == Init /\ [][Next]_vars

\* The text and the tree always describe the same interface body.
TextMatchesTree ==
  text = SourceOf([k \in 1..Len(body) |-> MemberOf(body[k], text)])
\* ------------------------------------------------------------------ claims

Identity(n) == [i \in 1..n |-> i]

\* Position of node i in a target order.
Pos(order, i) == CHOOSE k \in DOMAIN order : order[k] = i

\* The SortingNodes of the current body, whatever its length.
Current == SortingNodes(body, text)

\* The current body is already in the order the fix would give it.
InTargetOrder ==
  StableOrder(Current, Len(Current), options) = Identity(Len(Current))

\* Some member of the current body belongs strictly before an earlier one.
HasInversion ==
  \E i, j \in 1..Len(Current) : i < j /\ compare(Current[i], Current[j], options)

\* The adjacent positions i whose pair (i, i+1) is out of order.
Breaks ==
  {i \in 1..(Len(Current) - 1) : compare(Current[i], Current[i + 1], options)}

\* C1: a body that is already in sorted order under the effective
\* configuration gets no report, and so no fix.
C1_SortedBodyIsSilent ==
  (pc = "reported" /\ InTargetOrder) => diagnostics = <<>>

C1_Witness ==
  /\ pc = "reported" /\ passes = 0 /\ Len(body) = 3
  /\ options = [type |-> "line-length", order |-> "desc"]
  /\ InTargetOrder /\ diagnostics = <<>>

\* C2: after the fix of a pass has been applied, linting the result reports
\* nothing.
C2_FixedBodyIsSilent ==
  (pc = "reported" /\ passes >= 1) => diagnostics = <<>>

C2_Witness ==
  /\ pc = "reported" /\ passes = 1 /\ Len(body) = 3
  /\ options.type = "natural" /\ diagnostics = <<>>

\* C3: a body of two or more members in which some member belongs strictly
\* before an earlier one (adjacent or not) gets at least one report.
C3_UnsortedBodyIsReported ==
  (pc = "reported" /\ Len(body) >= 2 /\ HasInversion) => diagnostics # <<>>

C3_Witness ==
  /\ pc = "reported" /\ Len(body) = 3 /\ diagnostics # <<>>
  /\ compare(Current[1], Current[3], options)
  /\ ~compare(Current[1], Current[2], options)

\* C4: every adjacent pair whose later member belongs strictly before the
\* earlier one gets exactly one report, anchored to the later member, whose
\* data names the earlier member as first and the later as second; there
\* is no other report.
C4_OneReportPerBreak ==
  pc = "reported" =>
    /\ Len(diagnostics) = Cardinality(Breaks)
    /\ \A i \in 1..(Len(body) - 1) :
         LET anchored == {k \in DOMAIN diagnostics : diagnostics[k].node = body[i + 1]}
         IN IF i \in Breaks
            THEN /\ Cardinality(anchored) = 1
                 /\ \A k \in anchored :
                      diagnostics[k].data = [first |-> Current[i].name,
                                             second |-> Current[i + 1].name]
            ELSE anchored = {}
    /\ \A k \in DOMAIN diagnostics : diagnostics[k].node # body[1]

\* Members named b, a, c() under alphabetical/asc: one report, on a.
C4_Witness ==
  /\ pc = "reported" /\ Len(nodes) = 3
  /\ options = [type |-> "alphabetical", order |-> "asc"]
  /\ nodes[1].name = <<"b">> /\ nodes[2].name = <<"a">>
  /\ nodes[3].name = <<"c", "(", ")">>
  /\ Len(diagnostics) = 1
  /\ diagnostics[1].node = body[2]
  /\ diagnostics[1].data = [first |-> <<"b">>, second |-> <<"a">>]
  /\ diagnostics[1].fix.order = <<2, 1, 3>>

\* C5 as stated: a pass emits at most one edit for an interface body.
C5_AtMostOneEdit ==
  pc = "reported" => Cardinality(DOMAIN diagnostics) <= 1

\* C5, amended: every report carries its own edit, and the edits of one
\* pass are one and the same replacement of the whole body.
C5_EveryEditIsTheWholeBody ==
  pc = "reported" =>
    \A k \in DOMAIN diagnostics :
      /\ diagnostics[k].fix = diagnostics[1].fix
      /\ diagnostics[k].fix.range = <<body[1].range[1], body[Len(body)].range[2]>>
      /\ {diagnostics[k].fix.order[p] : p \in DOMAIN diagnostics[k].fix.order}
           = 1..Len(body)

C5_Witness ==
  /\ pc = "reported" /\ Len(diagnostics) = 2 /\ Len(body) = 3

\* Equal keys as C6 states them: equal sizes in line-length mode, equal
\* names otherwise.
SameKeyAsStated(a, b) ==
  IF options.type = "line-length" THEN a.size = b.size ELSE a.name = b.name

\* Equal keys, amended: in line-length mode the names are equal as well.
SameKey(a, b) ==
  /\ a.name = b.name
  /\ options.type = "line-length" => a.size = b.size

\* C6 as stated: members of equal name (equal size in line-length mode)
\* keep their relative order in the fix.
C6_StableAsStated ==
  pc = "reported" =>
    \A k \in DOMAIN diagnostics : \A i, j \in DOMAIN nodes :
      (i < j /\ SameKeyAsStated(nodes[i], nodes[j]))
        => Pos(diagnostics[k].fix.order, i) < Pos(diagnostics[k].fix.order, j)

\* C6, amended: members of equal name (and, in line-length mode, of equal
\* size as well) keep their relative order in the fix.
C6_Stable ==
  pc = "reported" =>
    \A k \in DOMAIN diagnostics : \A i, j \in DOMAIN nodes :
      (i < j /\ SameKey(nodes[i], nodes[j]))
        => Pos(diagnostics[k].fix.order, i) < Pos(diagnostics[k].fix.order, j)

C6_Witness ==
  /\ pc = "reported" /\ diagnostics # <<>>
  /\ options.type = "line-length"
  /\ \E i, j \in DOMAIN nodes :
       /\ i < j /\ SameKey(nodes[i], nodes[j])
       /\ Pos(diagnostics[1].fix.order, i) # i

\* C7: every fix attached to a report changes the order of the members and
\* the text of the body.
C7_FixReorders ==
  pc = "reported" =>
    \A k \in DOMAIN diagnostics :
      /\ diagnostics[k].fix.order # Identity(Len(body))
      /\ diagnostics[k].fix.text
           # slice(text, diagnostics[k].fix.range[1], diagnostics[k].fix.range[2])

\* A report in line-length mode on a body with two members of one size.
C7_Witness ==
  /\ pc = "reported" /\ diagnostics # <<>>
  /\ options.type = "line-length"
  /\ \E i \in 1..(Len(nodes) - 1) : nodes[i].size = nodes[i + 1].size
  /\ diagnostics[1].fix.order # Identity(Len(body))

\* Where the slice that names an element ends, as C8 states it: the earliest
\* annotation start, else the end, less one for an optional element.
StatedSliceEnd(e) ==
  LET starts == {r[1] : r \in {e.typeAnnotation, e.returnType} \ {None}}
  IN IF starts # {} THEN CHOOSE m \in starts : \A o \in starts : m <= o
     ELSE e.range[2] - (IF e.optional THEN 1 ELSE 0)

\* C8 as stated: an identifier key gives its text, a literal key its
\* stringified value, any other element the slice up to StatedSliceEnd.
C8_NameAsStated ==
  pc = "reported" =>
    \A i \in DOMAIN nodes :
      LET e == nodes[i].node
      IN nodes[i].name =
           IF e.key.type = "Identifier" THEN e.key.name
           ELSE IF e.key.type = "Literal" THEN stringify(e.key.value)
           ELSE slice(text, e.range[1], StatedSliceEnd(e))

\* C8, amended: the key decides the name for property signatures only, and
\* the character dropped is that of a property signature flagged optional.
C8_Name ==
  pc = "reported" =>
    \A i \in DOMAIN nodes :
      LET e == nodes[i].node
          property == e.type = "TSPropertySignature"
          annotation == IF property \/ e.type = "TSIndexSignature"
                        THEN e.typeAnnotation ELSE e.returnType
          end == IF annotation # None THEN annotation[1]
                 ELSE IF property /\ e.optional THEN e.range[2] - 1
                 ELSE e.range[2]
      IN /\ e = body[i]
         /\ (property /\ e.key.type = "Identifier") => nodes[i].name = e.key.name
         /\ (property /\ e.key.type = "Literal" /\ e.key.value.kind = "string")
              => nodes[i].name = e.key.value.str
         /\ (property /\ e.key.type = "Literal" /\ e.key.value.kind = "number")
              => nodes[i].name = Decimal(e.key.value.num)
         /\ (~property \/ e.key.type \notin {"Identifier", "Literal"})
              => nodes[i].name = slice(text, e.range[1], end)

\* A method signature named by its slice beside an optional computed
\* property that loses its last character.
C8_Witness ==
  /\ pc = "reported"
  /\ \E i, j \in DOMAIN nodes :
       /\ nodes[i].node.type = "TSMethodSignature"
       /\ nodes[i].name = <<"c", "(", ")">>
       /\ nodes[j].node.key.type = "MemberExpression"
       /\ nodes[j].node.typeAnnotation = None
       /\ nodes[j].name = <<"[", "a", ".", "c", "]", "?">>

\* C9: no element is named by the empty string.
C9_NameNotEmpty ==
  pc = "reported" => \A i \in DOMAIN nodes : nodes[i].name # <<>>

\* The configuration C10 states: what the user supplies, and
\* alphabetical/asc for what the user leaves out.
Documented(given) ==
  [type |-> IF given = <<>> \/ given[1].type = Absent
            THEN "alphabetical" ELSE given[1].type,
   order |-> IF given = <<>> \/ given[1].order = Absent
             THEN "asc" ELSE given[1].order]

\* C10: the effective options of a pass are the user's, with the documented
\* defaults for what is absent.
C10_DocumentedDefaults ==
  pc = "reported" => options = Documented(userOptions)
====
